---------------------------- MODULE Spec2Model ----------------------------
(***************************************************************************)
(* State-machine model of the math-compiler front end:                     *)
(*   Tokenize (lexer.cpp)  : character-level state machine                 *)
(*   Parser   (parser.cpp) : Pratt / recursive-descent parser, modelled    *)
(*                           with an explicit call stack                   *)
(*   AST      (AST.h)      : append-only arena of nodes                    *)
(* Characters are one-character strings, std::string buffers are sequences *)
(* of characters, lexemes stored in tokens are strings.                    *)
(***************************************************************************)
EXTENDS Integers, Sequences, FiniteSets, TLC

VARIABLES
    \* ---- Tokenize's locals and out-parameter
    input,      \* const std::string& input, as a sequence of characters
    i,          \* loop index (0-based)
    s,          \* State s
    buffer,     \* std::string buffer
    startPos,   \* size_t startPos
    tokens,     \* std::vector<Token>& tokens
    lexResult,  \* "idle" | "running" | "true" | "false" | "thrown"
    \* ---- Parser members, the AST and the parser's call stack
    _tokens,    \* const std::vector<Token>* _tokens (the vector pointed to)
    _pos,       \* size_t _pos
    arena,      \* AST::arena
    root,       \* AST::root
    stack,      \* call stack of the parse functions, top frame last
    ret,        \* value returned by the call that has just returned
    pstate,     \* "idle" | "running" | "returned" | "thrown" | "crashed"
    result,     \* bool returned by Parser::parse
    error,      \* what() of the exception that left parse
    garbage,    \* the token read behind the end of *_tokens (undefined behaviour)
    calls       \* number of Parser::parse calls made on this Parser

lexVars == <<input, i, s, buffer, startPos, tokens, lexResult>>
parVars == <<_tokens, _pos, arena, root, stack, ret, pstate, result, error, garbage, calls>>
vars == <<input, i, s, buffer, startPos, tokens, lexResult,
          _tokens, _pos, arena, root, stack, ret, pstate, result, error, garbage, calls>>

(***************************************************************************)
(* Bounds of the model.                                                    *)
(***************************************************************************)
\* longest input text enumerated exhaustively over LexAlphabet
MaxLen == 3
\* longest token sequence (End not counted) enumerated exhaustively
MaxToks == 2
\* number of nodes the arena can hold before an allocation fails
MaxArena == 9
\* number of Parser::parse calls made on one Parser object
MaxCalls == 2

(***************************************************************************)
(* Characters (<cctype> in the "C" locale).                                *)
(***************************************************************************)
NUL == "NUL"    \* the sentinel '\0' read at i = input.size()

Digits == {"0", "1", "2", "3", "4", "5", "6", "7", "8", "9"}

Letters ==
    {"a", "b", "c", "d", "e", "f", "g", "h", "i", "j", "k", "l", "m",
     "n", "o", "p", "q", "r", "s", "t", "u", "v", "w", "x", "y", "z",
     "A", "B", "C", "D", "E", "F", "G", "H", "I", "J", "K", "L", "M",
     "N", "O", "P", "Q", "R", "S", "T", "U", "V", "W", "X", "Y", "Z"}

isdigit(c) == c \in Digits

isalnum(c) == c \in Digits \cup Letters

isspace(c) == c \in {" ", "\t", "\n", "\r", "\f"}

DigitVal(c) ==
    CASE c = "0" -> 0 [] c = "1" -> 1 [] c = "2" -> 2 [] c = "3" -> 3
      [] c = "4" -> 4 [] c = "5" -> 5 [] c = "6" -> 6 [] c = "7" -> 7
      [] c = "8" -> 8 [] c = "9" -> 9

RECURSIVE Join(_)
\* std::string built from a sequence of characters
Join(cs) == IF cs = <<>> THEN "" ELSE Head(cs) \o Join(Tail(cs))

RECURSIVE DecValue(_)
\* value of a sequence of decimal digits
DecValue(ds) ==
    IF ds = <<>> THEN 0
    ELSE 10 * DecValue(SubSeq(ds, 1, Len(ds) - 1)) + DigitVal(ds[Len(ds)])

RECURSIVE StripZeros(_)
StripZeros(ds) ==
    IF ds # <<>> /\ Head(ds) = "0" THEN StripZeros(Tail(ds)) ELSE ds

RECURSIVE DigitsLeq(_, _)
\* ds <= es for two digit sequences of the same length
DigitsLeq(ds, es) ==
    IF ds = <<>> THEN TRUE
    ELSE IF DigitVal(Head(ds)) < DigitVal(Head(es)) THEN TRUE
    ELSE IF DigitVal(Head(ds)) > DigitVal(Head(es)) THEN FALSE
    ELSE DigitsLeq(Tail(ds), Tail(es))

\* the decimal digits of INT_MAX = 2^31 - 1
INT_MAX_DIGITS == <<"2", "1", "4", "7", "4", "8", "3", "6", "4", "7">>

\* the digit sequence denotes a value that fits in int
FitsInt(ds) ==
    LET z == StripZeros(ds) IN
    \/ Len(z) < Len(INT_MAX_DIGITS)
    \/ Len(z) = Len(INT_MAX_DIGITS) /\ DigitsLeq(z, INT_MAX_DIGITS)

\* the leading run of digits of a buffer
RECURSIVE LeadingDigits(_)
LeadingDigits(cs) ==
    IF cs # <<>> /\ isdigit(Head(cs)) THEN <<Head(cs)>> \o LeadingDigits(Tail(cs))
    ELSE <<>>

(***************************************************************************)
(* Number and Token (lookupstuff.h, lexer.h).                              *)
(***************************************************************************)
NoNumber == [has |-> FALSE]

\* Number{ value, isInt } held in the token's std::optional
IntNumber(v, flag) ==
    [has |-> TRUE, alt |-> "i64", value |-> v, exp |-> 0, isInt |-> flag]

\* a double is kept as value * 10^exp
DoubleNumber(m, e, flag) ==
    [has |-> TRUE, alt |-> "double", value |-> m, exp |-> e, isInt |-> flag]

Token(type, lexeme, pos, number) ==
    [type |-> type, lexeme |-> lexeme, pos |-> pos, number |-> number]

TokenIsInt(t) == t.number.has /\ t.number.isInt

\* std::stoi(buffer) in the Number state: the buffer holds digits only
stoi(buf) ==
    IF FitsInt(buf) THEN [ok |-> TRUE, value |-> DecValue(StripZeros(buf))]
    ELSE [ok |-> FALSE, what |-> "stoi: out_of_range"]

\* std::stoll(buffer) in the NumberFrac state: converts the leading digits and
\* stops at the '.'; no digit before the '.' is std::invalid_argument
stoll(buf) ==
    LET ds == LeadingDigits(buf) IN
    IF ds = <<>> THEN [ok |-> FALSE, what |-> "stoll: invalid_argument"]
    ELSE [ok |-> TRUE, value |-> DecValue(StripZeros(ds))]

\* std::stod(buffer) in the NumberExp state: digits, e or E, optional '-', digits
stod(buf) ==
    LET m == LeadingDigits(buf)
        rest == SubSeq(buf, Len(m) + 2, Len(buf))
        neg == rest # <<>> /\ Head(rest) = "-"
        ex == IF neg THEN Tail(rest) ELSE rest
    IN <<DecValue(StripZeros(m)),
         IF neg THEN 0 - DecValue(StripZeros(ex)) ELSE DecValue(StripZeros(ex))>>

(***************************************************************************)
(* Tokenize (lexer.cpp).  One action per case of the switch; each is one   *)
(* iteration of the for loop, the i++ of the loop header included.         *)
(***************************************************************************)
\* unsigned char c = (i < input.size()) ? input[i] : '\0'
CharAt(k) == IF k < Len(input) THEN input[k + 1] ELSE NUL

\* the commit lambda: tokens.push_back(Token{...})
commit(type, lexeme, pos, number) == Append(tokens, Token(type, lexeme, pos, number))

\* the one-character tokens of the Start state
Punctuation(c) ==
    CASE c = "{" -> "LBrace" [] c = "}" -> "RBrace"
      [] c = "(" -> "LParenthesis" [] c = ")" -> "RParenthesis"
      [] c = "[" -> "LBracket" [] c = "]" -> "RBracket"
      [] c = "," -> "Comma" [] c = "+" -> "Plus" [] c = "-" -> "Minus"
      [] c = "*" -> "Star" [] c = "/" -> "Slash" [] c = "^" -> "Caret"
      [] c = "_" -> "Underscore" [] c = "=" -> "Equals"
      [] OTHER -> "none"

Lexing(st) == lexResult = "running" /\ i <= Len(input) /\ s = st

\* a commit that pushes the index back by two positions
AfterCommit_PushBackTwo(c) == IF c # NUL THEN i - 1 ELSE i + 1

\* what every non-accumulating branch does after a commit:
\* s = State::Start; if (c != '\0') --i;  followed by the loop's i++
AfterCommit(c) == IF c # NUL THEN i ELSE i + 1

LexStart ==
    /\ Lexing("Start")
    /\ LET c == CharAt(i) IN
       IF c = NUL THEN
            /\ tokens' = commit("End", "", Len(input), NoNumber)
            /\ lexResult' = "true"
            /\ UNCHANGED <<i, s, buffer, startPos>>
       ELSE IF isspace(c) THEN
            /\ i' = i + 1
            /\ UNCHANGED <<s, buffer, startPos, tokens, lexResult>>
       ELSE IF isdigit(c) THEN
            /\ s' = "Number" /\ buffer' = <<c>> /\ startPos' = i /\ i' = i + 1
            /\ UNCHANGED <<tokens, lexResult>>
       ELSE IF c = "." THEN
            /\ s' = "NumberFracMark" /\ buffer' = <<".">> /\ startPos' = i /\ i' = i + 1
            /\ UNCHANGED <<tokens, lexResult>>
       ELSE IF c = "\\" THEN
            /\ s' = "Command" /\ buffer' = <<"\\">> /\ startPos' = i /\ i' = i + 1
            /\ UNCHANGED <<tokens, lexResult>>
       ELSE IF isalnum(c) THEN
            /\ s' = "Identifier" /\ buffer' = <<c>> /\ startPos' = i /\ i' = i + 1
            /\ UNCHANGED <<tokens, lexResult>>
       ELSE IF Punctuation(c) # "none" THEN
            /\ tokens' = commit(Punctuation(c), c, i, NoNumber)
            /\ i' = i + 1
            /\ UNCHANGED <<s, buffer, startPos, lexResult>>
       ELSE
            /\ lexResult' = "false"
            /\ UNCHANGED <<i, s, buffer, startPos, tokens>>
    /\ UNCHANGED <<input>>
    /\ UNCHANGED parVars

LexNumber ==
    /\ Lexing("Number")
    /\ LET c == CharAt(i) IN
       IF isdigit(c) THEN
            /\ buffer' = Append(buffer, c) /\ i' = i + 1
            /\ UNCHANGED <<s, tokens, lexResult>>
       ELSE IF c = "." THEN
            /\ buffer' = Append(buffer, ".") /\ s' = "NumberFracMark" /\ i' = i + 1
            /\ UNCHANGED <<tokens, lexResult>>
       ELSE IF c = "e" \/ c = "E" THEN
            /\ buffer' = Append(buffer, c) /\ s' = "NumberExpMark" /\ i' = i + 1
            /\ UNCHANGED <<tokens, lexResult>>
       ELSE LET n == stoi(buffer) IN
            IF n.ok THEN
                /\ tokens' = commit("Number", Join(buffer), i, IntNumber(n.value, TRUE))
                /\ s' = "Start"
                /\ i' = AfterCommit(c)
                /\ UNCHANGED <<buffer, lexResult>>
            ELSE
                /\ lexResult' = "thrown"
                /\ UNCHANGED <<i, s, buffer, tokens>>
    /\ UNCHANGED <<input, startPos>>
    /\ UNCHANGED parVars

\* a fractional mark that needs no digit after it
LexNumberFracMark_DigitOptional ==
    /\ Lexing("NumberFracMark")
    /\ LET c == CharAt(i) IN
       IF isdigit(c) THEN
            /\ buffer' = Append(buffer, c) /\ s' = "NumberFrac" /\ i' = i + 1
       ELSE
            /\ s' = "NumberFrac"
            /\ UNCHANGED <<i, buffer>>
    /\ UNCHANGED <<input, startPos, tokens, lexResult>>
    /\ UNCHANGED parVars

LexNumberFracMark ==
    /\ Lexing("NumberFracMark")
    /\ LET c == CharAt(i) IN
       IF isdigit(c) THEN
            /\ buffer' = Append(buffer, c) /\ s' = "NumberFrac" /\ i' = i + 1
            /\ UNCHANGED <<lexResult>>
       ELSE
            /\ lexResult' = "false"
            /\ UNCHANGED <<i, s, buffer>>
    /\ UNCHANGED <<input, startPos, tokens>>
    /\ UNCHANGED parVars

LexNumberFrac ==
    /\ Lexing("NumberFrac")
    /\ LET c == CharAt(i) IN
       IF isdigit(c) THEN
            /\ buffer' = Append(buffer, c) /\ i' = i + 1
            /\ UNCHANGED <<s, tokens, lexResult>>
       ELSE LET n == stoll(buffer) IN
            IF n.ok THEN
                /\ tokens' = commit("Number", Join(buffer), i, IntNumber(n.value, TRUE))
                /\ s' = "Start"
                /\ i' = AfterCommit(c)
                /\ UNCHANGED <<buffer, lexResult>>
            ELSE
                /\ lexResult' = "thrown"
                /\ UNCHANGED <<i, s, buffer, tokens>>
    /\ UNCHANGED <<input, startPos>>
    /\ UNCHANGED parVars

LexNumberExpMark ==
    /\ Lexing("NumberExpMark")
    /\ LET c == CharAt(i) IN
       IF isdigit(c) THEN
            /\ buffer' = Append(buffer, c) /\ s' = "NumberExp" /\ i' = i + 1
            /\ UNCHANGED <<lexResult>>
       ELSE IF c = "-" THEN
            /\ buffer' = Append(buffer, "-") /\ s' = "NumberExpSign" /\ i' = i + 1
            /\ UNCHANGED <<lexResult>>
       ELSE
            /\ lexResult' = "false"
            /\ UNCHANGED <<i, s, buffer>>
    /\ UNCHANGED <<input, startPos, tokens>>
    /\ UNCHANGED parVars

LexNumberExpSign ==
    /\ Lexing("NumberExpSign")
    /\ LET c == CharAt(i) IN
       IF isdigit(c) THEN
            /\ buffer' = Append(buffer, c) /\ s' = "NumberExp" /\ i' = i + 1
            /\ UNCHANGED <<lexResult>>
       ELSE
            /\ lexResult' = "false"
            /\ UNCHANGED <<i, s, buffer>>
    /\ UNCHANGED <<input, startPos, tokens>>
    /\ UNCHANGED parVars

LexNumberExp ==
    /\ Lexing("NumberExp")
    /\ LET c == CharAt(i) IN
       IF isdigit(c) THEN
            /\ buffer' = Append(buffer, c) /\ i' = i + 1
            /\ UNCHANGED <<s, tokens>>
       ELSE LET d == stod(buffer) IN
            /\ tokens' = commit("Number", Join(buffer), i, DoubleNumber(d[1], d[2], FALSE))
            /\ s' = "Start"
            /\ i' = AfterCommit(c)
            /\ UNCHANGED <<buffer>>
    /\ UNCHANGED <<input, startPos, lexResult>>
    /\ UNCHANGED parVars

LexIdentifier ==
    /\ Lexing("Identifier")
    /\ LET c == CharAt(i) IN
       IF isalnum(c) THEN
            /\ buffer' = Append(buffer, c) /\ i' = i + 1
            /\ UNCHANGED <<s, tokens>>
       ELSE
            /\ tokens' = commit("Identifier", Join(buffer), startPos, NoNumber)
            /\ s' = "Start"
            /\ i' = AfterCommit(c)
            /\ UNCHANGED <<buffer>>
    /\ UNCHANGED <<input, startPos, lexResult>>
    /\ UNCHANGED parVars

LexCommand ==
    /\ Lexing("Command")
    /\ LET c == CharAt(i) IN
       IF isalnum(c) THEN
            /\ buffer' = Append(buffer, c) /\ i' = i + 1
            /\ UNCHANGED <<s, tokens>>
       ELSE
            /\ tokens' = commit("Command", Join(buffer), startPos, NoNumber)
            /\ s' = "Start"
            /\ i' = AfterCommit(c)
            /\ UNCHANGED <<buffer>>
    /\ UNCHANGED <<input, startPos, lexResult>>
    /\ UNCHANGED parVars

\* the code after the for loop: return s == State::Start
LexLoopExit ==
    /\ lexResult = "running" /\ i > Len(input)
    /\ lexResult' = IF s = "Start" THEN "true" ELSE "false"
    /\ UNCHANGED <<input, i, s, buffer, startPos, tokens>>
    /\ UNCHANGED parVars


(***************************************************************************)
(* Lookup tables (parser.h).                                               *)
(***************************************************************************)
\* (int)TokenType, as printed by Parser::expect
TokenTypeInt(type) ==
    CASE type = "Number" -> 0 [] type = "Identifier" -> 1 [] type = "Command" -> 2
      [] type = "LBrace" -> 3 [] type = "RBrace" -> 4
      [] type = "LParenthesis" -> 5 [] type = "RParenthesis" -> 6
      [] type = "LBracket" -> 7 [] type = "RBracket" -> 8
      [] type = "Comma" -> 9 [] type = "Plus" -> 10 [] type = "Minus" -> 11
      [] type = "Star" -> 12 [] type = "Slash" -> 13 [] type = "Caret" -> 14
      [] type = "Underscore" -> 15 [] type = "Equals" -> 16 [] type = "End" -> 17

InfixInfo(l, r, k) == [leftBP |-> l, rightBP |-> r, opKind |-> k]

\* the keys of INFIX_OPS
INFIX_OPS_KEYS == {"Equals", "Plus", "Minus", "Star", "Slash", "Caret"}

\* every infix operator binding tighter on its left than on its right
INFIX_OPS_RightGrouping(type) ==
    CASE type = "Equals" -> InfixInfo(2, 1, "Equals")
      [] type = "Plus" -> InfixInfo(4, 3, "Add")
      [] type = "Minus" -> InfixInfo(4, 3, "Subtract")
      [] type = "Star" -> InfixInfo(6, 5, "Multiply")
      [] type = "Slash" -> InfixInfo(6, 5, "Divide")
      [] type = "Caret" -> InfixInfo(12, 11, "Power")

INFIX_OPS(type) ==
    CASE type = "Equals" -> InfixInfo(1, 2, "Equals")
      [] type = "Plus" -> InfixInfo(3, 4, "Add")
      [] type = "Minus" -> InfixInfo(3, 4, "Subtract")
      [] type = "Star" -> InfixInfo(5, 6, "Multiply")
      [] type = "Slash" -> InfixInfo(5, 6, "Divide")
      [] type = "Caret" -> InfixInfo(12, 11, "Power")

\* implicit multiplication binding like + and -
IMPLICIT_MULTIPLY_OP_Additive == InfixInfo(3, 4, "Multiply")

IMPLICIT_MULTIPLY_OP == InfixInfo(5, 6, "Multiply")

PREFIX_UNARY_RBP == 9

POSTFIX_LBP == 13

\* left and right binding power written as literals in the infix-command branch
INFIX_COMMAND_LBP == 5

INFIX_COMMAND_RBP == 6

FUNCTION_KIND_KEYS == {"sin", "cos", "tan", "ln", "log", "exp"}

FUNCTION_KIND_MAP(name) ==
    CASE name = "sin" -> "Sine" [] name = "cos" -> "Cosine" [] name = "tan" -> "Tangent"
      [] name = "ln" -> "NaturalLogarithm" [] name = "log" -> "Logarithm"
      [] name = "exp" -> "Exponential"

OPERATOR_NAME_KEYS == {"max", "min", "atan2", "hypot", "abs"}

OPERATOR_NAME_MAP(name) ==
    CASE name = "max" -> "Max" [] name = "min" -> "Min" [] name = "atan2" -> "Atan2"
      [] name = "hypot" -> "Hypotenuse" [] name = "abs" -> "AbsoluteValue"

CONSTANT_KEYS == {"pi", "e"}

CONSTANT_MAP(name) == CASE name = "pi" -> "PI" [] name = "e" -> "E"

PREFIX_COMMANDS ==
    {"sin", "cos", "tan", "ln", "log", "exp", "pi", "e", "sqrt", "frac",
     "left", "operatorname", "arcsin", "arccos", "arctan"}

(***************************************************************************)
(* AST (AST.h): NodeID, the node variants and the add functions.           *)
(***************************************************************************)
\* NodeID::None(), the index (size_t)-1
None == 0 - 1

ConstantNode(cKind, pos) == [k |-> "Constant", cKind |-> cKind, pos |-> pos]

RealNode(value, pos) == [k |-> "Real", value |-> value, pos |-> pos]

RationalNode(n, d, pos) ==
    [k |-> "Rational", numerator |-> n, denominator |-> d, pos |-> pos]

IdentifierNode(name, pos) == [k |-> "Identifier", name |-> name, pos |-> pos]

BinaryOpNode(bKind, left, right, pos) ==
    [k |-> "BinaryOp", bKind |-> bKind, left |-> left, right |-> right, pos |-> pos]

UnaryOpNode(uKind, inner, pos) ==
    [k |-> "UnaryOp", uKind |-> uKind, inner |-> inner, pos |-> pos]

CallNode(fKind, args, pos) == [k |-> "Call", fKind |-> fKind, args |-> args, pos |-> pos]

Abs(n) == IF n < 0 THEN 0 - n ELSE n

RECURSIVE Gcd(_, _)
\* std::gcd of two non-negative values
Gcd(a, b) == IF b = 0 THEN a ELSE Gcd(b, a % b)

\* C++ integer division (truncation toward zero), divisor > 0
CDiv(n, d) == IF n < 0 THEN 0 - ((0 - n) \div d) ELSE n \div d

\* the node AST::addRational builds; commonDivisor = 0 is a division by zero
addRationalNode(numerator, denominator, pos) ==
    LET commonDivisor == Gcd(Abs(numerator), Abs(denominator)) IN
    RationalNode(CDiv(numerator, commonDivisor), CDiv(denominator, commonDivisor), pos)

(***************************************************************************)
(* Parser state as one record, so that every parse function is an operator *)
(* from parser state to parser state.                                      *)
(***************************************************************************)
Frame(fn, pc) ==
    [fn |-> fn, pc |-> pc, minBP |-> 0, leftSide |-> None, kind |-> "",
     p |-> 0, held |-> None, args |-> <<>>]

NoError == <<>>

NoGarbage == [type |-> "none", lexeme |-> "", pos |-> 0, number |-> NoNumber]

\* (*_tokens)[k]; an index behind the end reads whatever lies there
TokAt(P, k) == IF k < Len(P.tokens) THEN P.tokens[k + 1] ELSE P.garbage

\* Parser::peek
peek(P) == TokAt(P, P.pos)

\* Parser::advance: the cursor does not move at End
advance(P) == [P EXCEPT !.pos = IF peek(P).type # "End" THEN @ + 1 ELSE @]

\* an exception leaves Parser::parse: every frame is unwound
Throw(P, msg) == [P EXCEPT !.pstate = "thrown", !.error = msg, !.stack = <<>>]

Thrown(P) == P.pstate # "running"

\* an expect that consumes whatever token is there
expect_AlwaysSkips(P, type) == [P EXCEPT !.pos = @ + 1]

\* an expect that lets a wrong token pass
expect_Lenient(P, type) == IF peek(P).type = type THEN advance(P) ELSE P

\* Parser::expect
expect(P, type) ==
    IF peek(P).type = type THEN advance(P)
    ELSE Throw(P, <<"expected ", TokenTypeInt(type), ", got '", peek(P).lexeme, "'">>)

\* bool Parser::canImplicitMultiply() const
canImplicitMultiply(P) ==
    LET t == peek(P) IN
    IF t.type = "Number" THEN TRUE
    ELSE IF t.type = "Identifier" THEN t.lexeme = "!"
    ELSE IF t.type = "LParenthesis" THEN TRUE
    ELSE IF t.type = "LBrace" THEN TRUE
    ELSE IF t.type = "Command" THEN t.lexeme \in PREFIX_COMMANDS
    ELSE FALSE

\* AST::addNode: the new node's id is arena.size(); emplace_back on a full
\* arena throws std::bad_alloc
CanAdd(P) == Len(P.arena) < MaxArena

NextId(P) == Len(P.arena)

addNode(P, node) ==
    IF CanAdd(P) THEN [P EXCEPT !.arena = Append(@, node)]
    ELSE Throw(P, <<"std::bad_alloc">>)

Top(P) == P.stack[Len(P.stack)]

Callers(P) == SubSeq(P.stack, 1, Len(P.stack) - 1)

\* return v; from the function on top of the stack
Return(P, v) == IF Thrown(P) THEN P ELSE [P EXCEPT !.stack = Callers(P), !.ret = v]

\* the top frame becomes f and calls the function whose frame is g
Call(P, f, g) ==
    IF Thrown(P) THEN P ELSE [P EXCEPT !.stack = Callers(P) \o <<f, g>>]

\* return g(...); the callee's result is the caller's result
TailCall(P, g) == IF Thrown(P) THEN P ELSE [P EXCEPT !.stack = Callers(P) \o <<g>>]

\* the top frame becomes f
Goto(P, f) == IF Thrown(P) THEN P ELSE [P EXCEPT !.stack = Callers(P) \o <<f>>]

\* add a node and return its id from the function on top of the stack
AddAndReturn(P, node) == Return(addNode(P, node), NextId(P))

ExpressionFrame(bp) == [Frame("parseExpression", "entry") EXCEPT !.minBP = bp]


(***************************************************************************)
(* The parse functions (parser.cpp).  Every operator is the code of one    *)
(* function from one program point up to its next call of a parse function *)
(* or its return; pc names the program point.                              *)
(***************************************************************************)
\* parse reporting success whatever the current token is
parseReturn_AlwaysTrue(P) ==
    [P EXCEPT !.root = P.ret, !.result = TRUE, !.pstate = "returned", !.stack = <<>>]

\* Parser::parse, after parseExpression(0) has returned:
\* _ast->root = <returned id>; return peek().is(TokenType::End);
parseReturn(P) ==
    [P EXCEPT !.root = P.ret, !.result = (peek(P).type = "End"),
              !.pstate = "returned", !.stack = <<>>]

\* parseExpression: NodeID leftSide = parsePrefix();
parseExpressionEntry(P) ==
    Call(P, [Top(P) EXCEPT !.pc = "afterPrefix"], Frame("parsePrefix", "entry"))

\* parseExpression, the part of the loop body after the postfix branch:
\* t is the token peeked at the top of the iteration, Q the state now
parseExpressionInfix(Q, t, leftSide) ==
    LET minBP == Top(Q).minBP IN
    IF t.type \in INFIX_OPS_KEYS THEN
        LET op == INFIX_OPS(t.type) IN
        IF op.leftBP < minBP THEN Return(Q, leftSide)
        ELSE Call(advance(Q),
                  [Top(Q) EXCEPT !.pc = "afterInfix", !.leftSide = leftSide,
                                 !.kind = op.opKind, !.p = t.pos],
                  ExpressionFrame(op.rightBP))
    ELSE IF t.type = "Command" /\ t.lexeme \in {"cdot", "times", "div"} THEN
        IF INFIX_COMMAND_LBP < minBP THEN Return(Q, leftSide)
        ELSE Call(advance(Q),
                  [Top(Q) EXCEPT !.pc = "afterInfix", !.leftSide = leftSide,
                                 !.kind = IF t.lexeme = "div" THEN "Divide" ELSE "Multiply",
                                 !.p = t.pos],
                  ExpressionFrame(INFIX_COMMAND_RBP))
    ELSE IF canImplicitMultiply(Q) THEN
        IF IMPLICIT_MULTIPLY_OP.leftBP < minBP THEN Return(Q, leftSide)
        ELSE Call(Q,
                  [Top(Q) EXCEPT !.pc = "afterImplicit", !.leftSide = leftSide,
                                 !.kind = IMPLICIT_MULTIPLY_OP.opKind],
                  ExpressionFrame(IMPLICIT_MULTIPLY_OP.rightBP))
    ELSE Return(Q, leftSide)

\* parseExpression: one iteration of while (true), up to the recursive call,
\* the break or the continue.  At pc "afterPrefix" leftSide is the id that
\* parsePrefix has just returned.
parseExpressionLoop(P) ==
    LET leftSide == IF Top(P).pc = "afterPrefix" THEN P.ret ELSE Top(P).leftSide
        t == peek(P)
    IN
    IF t.type = "Identifier" /\ t.lexeme = "!" THEN
        IF POSTFIX_LBP < Top(P).minBP THEN Return(P, leftSide)
        ELSE
            \* no continue follows the wrap: control falls into the infix
            \* checks, still with the reference t to the '!' token
            LET Q == addNode(advance(P), UnaryOpNode("Factorial", leftSide, t.pos)) IN
            IF Thrown(Q) THEN Q ELSE parseExpressionInfix(Q, t, NextId(P))
    ELSE parseExpressionInfix(P, t, leftSide)

\* a BinaryOp node added with its own id as right child
parseExpressionCombine_SelfChild(P) ==
    LET f == Top(P) IN
    Goto(addNode(P, BinaryOpNode(f.kind, f.leftSide, NextId(P), f.p)),
         [f EXCEPT !.pc = "loop", !.leftSide = NextId(P)])

\* parseExpression: leftSide = _ast->addBinaryOp(kind, leftSide, rightSide, pos);
\* continue;   the implicit product takes its pos from peek()
parseExpressionCombine(P) ==
    LET f == Top(P)
        pos == IF f.pc = "afterImplicit" THEN peek(P).pos ELSE f.p
    IN Goto(addNode(P, BinaryOpNode(f.kind, f.leftSide, P.ret, pos)),
            [f EXCEPT !.pc = "loop", !.leftSide = NextId(P)])

\* parsePrefix
parsePrefixEntry(P) ==
    LET t == peek(P) IN
    IF t.type = "Number" THEN TailCall(P, Frame("parseNumber", "entry"))
    ELSE IF t.type = "Identifier" THEN
        AddAndReturn(advance(P), IdentifierNode(t.lexeme, t.pos))
    ELSE IF t.type = "Minus" THEN
        Call(advance(P), [Top(P) EXCEPT !.pc = "afterNegate", !.p = t.pos],
             ExpressionFrame(PREFIX_UNARY_RBP))
    ELSE IF t.type = "LParenthesis" THEN
        Call(advance(P), [Top(P) EXCEPT !.pc = "afterParen"], ExpressionFrame(0))
    ELSE IF t.type = "RBrace" THEN TailCall(P, Frame("parseBraceGroup", "entry"))
    ELSE IF t.type = "Command" THEN TailCall(P, Frame("parseCommand", "entry"))
    ELSE Throw(P, <<"unexpected token at pos ", t.pos>>)

\* parsePrefix: return _ast->addUnaryOp(UnaryOpKind::Negate, inner, p);
parsePrefixNegate(P) == AddAndReturn(P, UnaryOpNode("Negate", P.ret, Top(P).p))

\* parsePrefix: expect(TokenType::RParenthesis); return inner;
parsePrefixParen(P) == Return(expect(P, "RParenthesis"), P.ret)

\* parseNumber: the token is read with peek() and stays the current token
parseNumber(P) ==
    LET t == peek(P) IN
    IF TokenIsInt(t) THEN AddAndReturn(P, addRationalNode(t.number.value, 1, t.pos))
    ELSE AddAndReturn(P, RealNode(<<t.number.value, t.number.exp>>, t.pos))

\* a command read as if it were an identifier
parseCommandEntry_AsIdentifier(P) ==
    LET t == peek(P) IN AddAndReturn(advance(P), IdentifierNode(t.lexeme, t.pos))

\* parseCommand
parseCommandEntry(P) ==
    LET t == peek(P)
        cmd == t.lexeme
    IN
    IF cmd \in CONSTANT_KEYS THEN
        AddAndReturn(advance(P), ConstantNode(CONSTANT_MAP(cmd), t.pos))
    ELSE IF cmd \in FUNCTION_KIND_KEYS THEN
        TailCall(P, Frame("parseSingleArgFunction", "entry"))
    ELSE IF cmd = "operatorname" THEN TailCall(P, Frame("parseOperatorName", "entry"))
    ELSE IF cmd = "frac" THEN TailCall(P, Frame("parseFraction", "entry"))
    ELSE IF cmd = "sqrt" THEN
        Call(advance(P), [Top(P) EXCEPT !.pc = "afterSqrtArg", !.p = t.pos],
             Frame("parseBraceGroup", "entry"))
    ELSE IF cmd = "left" THEN TailCall(P, Frame("parseLeftRight", "entry"))
    ELSE Throw(P, <<"unknown command: \\", cmd>>)

\* parseCommand (sqrt): NodeID half = _ast->addRational(1, 2, p);
parseCommandSqrtHalf(P) ==
    Goto(addNode(P, addRationalNode(1, 2, Top(P).p)),
         [Top(P) EXCEPT !.pc = "afterHalf", !.leftSide = P.ret, !.held = NextId(P)])

\* parseCommand (sqrt): return _ast->addBinaryOp(BinaryOpKind::Power, inner, half, p);
parseCommandSqrtPower(P) ==
    AddAndReturn(P, BinaryOpNode("Power", Top(P).leftSide, Top(P).held, Top(P).p))

\* parseBraceGroup: expect(TokenType::LBrace); NodeID inner = parseExpression(0);
parseBraceGroupEntry(P) ==
    Call(expect(P, "LBrace"), [Top(P) EXCEPT !.pc = "afterInner"], ExpressionFrame(0))

\* parseBraceGroup: expect(TokenType::RBrace); return inner;
parseBraceGroupClose(P) == Return(expect(P, "RBrace"), P.ret)

\* parseLeftRight: advance(); expect(TokenType::LParenthesis); parseExpression(0)
parseLeftRightEntry(P) ==
    Call(expect(advance(P), "LParenthesis"), [Top(P) EXCEPT !.pc = "afterInner"],
         ExpressionFrame(0))

\* parseLeftRight: the \right check, advance(), expect(RParenthesis), return inner
parseLeftRightClose(P) ==
    IF peek(P).type # "Command" \/ peek(P).lexeme # "right"
    THEN Throw(P, <<"expected \\right">>)
    ELSE Return(expect(advance(P), "RParenthesis"), P.ret)


\* what an integer division by zero can do: trap (SIGFPE), or deliver 0
DivZeroOutcomes == {"trap", "zero"}

Crash(P) == [P EXCEPT !.pstate = "crashed", !.stack = <<>>]

\* AST::addRational, returned from the function on top of the stack;
\* numerator = denominator = 0 makes commonDivisor 0 (undefined behaviour)
addRational(P, numerator, denominator, pos, ub) ==
    IF Gcd(Abs(numerator), Abs(denominator)) = 0 THEN
        IF ub = "trap" THEN Crash(P) ELSE AddAndReturn(P, RationalNode(0, 0, pos))
    ELSE AddAndReturn(P, addRationalNode(numerator, denominator, pos))

\* a general path that starts where the tentative scan has got to
parseFractionEntry_NoRewind(P, ub) ==
    Call(advance(advance(P)), [Top(P) EXCEPT !.pc = "afterNumerator", !.p = peek(P).pos],
         Frame("parseBraceGroup", "entry"))

\* parseFraction up to its return (fast path) or its first parseBraceGroup()
parseFractionEntry(P, ub) ==
    LET p == peek(P).pos
        P0 == advance(P)
        saved == P0.pos
        P1 == advance(P0)
        negativeNumerator == peek(P1).type = "Minus"
        P2 == IF negativeNumerator THEN advance(P1) ELSE P1
        numerator == IF negativeNumerator THEN 0 - peek(P2).number.value
                     ELSE peek(P2).number.value
        P3 == advance(P2)
        P4 == advance(P3)
        P5 == advance(P4)
        negativeDenominator == peek(P5).type = "Minus"
        P6 == IF negativeDenominator THEN advance(P5) ELSE P5
        denominator == IF negativeDenominator THEN 0 - peek(P6).number.value
                       ELSE peek(P6).number.value
        P7 == advance(P6)
        P8 == advance(P7)
        fast == /\ peek(P0).type = "LBrace"
                /\ peek(P2).type = "Number" /\ TokenIsInt(peek(P2))
                /\ peek(P3).type = "RBrace"
                /\ peek(P4).type = "LBrace"
                /\ peek(P6).type = "Number" /\ TokenIsInt(peek(P6))
                /\ peek(P7).type = "RBrace"
    IN
    IF fast THEN addRational(P8, numerator, denominator, p, ub)
    ELSE Call([P0 EXCEPT !.pos = saved],
              [Top(P) EXCEPT !.pc = "afterNumerator", !.p = p],
              Frame("parseBraceGroup", "entry"))

\* parseFraction: NodeID denominator = parseBraceGroup();
parseFractionDenominator(P) ==
    Call(P, [Top(P) EXCEPT !.pc = "afterDenominator", !.leftSide = P.ret],
         Frame("parseBraceGroup", "entry"))

\* parseFraction: return _ast->addBinaryOp(BinaryOpKind::Divide, numerator, denominator, p);
parseFractionDivide(P) ==
    AddAndReturn(P, BinaryOpNode("Divide", Top(P).leftSide, P.ret, Top(P).p))

\* parseSingleArgFunction up to the call that parses the argument
parseSingleArgFunctionEntry(P) ==
    LET t == peek(P)
        Q == advance(P)
        f == [Top(P) EXCEPT !.kind = FUNCTION_KIND_MAP(t.lexeme), !.p = t.pos]
    IN
    IF peek(Q).type = "LBrace" THEN
        Call(Q, [f EXCEPT !.pc = "afterArg"], Frame("parseBraceGroup", "entry"))
    ELSE IF peek(Q).type = "LParenthesis" THEN
        Call(advance(Q), [f EXCEPT !.pc = "afterParenArg"], ExpressionFrame(0))
    ELSE Call(Q, [f EXCEPT !.pc = "afterArg"], ExpressionFrame(PREFIX_UNARY_RBP))

\* parseSingleArgFunction: [expect(RParenthesis);] return _ast->addCall(fKind, {arg}, p);
parseSingleArgFunctionCall(P) ==
    LET Q == IF Top(P).pc = "afterParenArg" THEN expect(P, "RParenthesis") ELSE P IN
    IF Thrown(Q) THEN Q
    ELSE AddAndReturn(Q, CallNode(Top(P).kind, <<P.ret>>, Top(P).p))

\* parseOperatorName up to parseArgList()
parseOperatorNameEntry(P) ==
    LET p == peek(P).pos
        P1 == expect(advance(P), "LBrace")
        name == peek(P1)
        P2 == expect(P1, "Identifier")
        P3 == expect(P2, "RBrace")
        P4 == expect(P3, "LParenthesis")
    IN
    IF Thrown(P1) THEN P1
    ELSE IF Thrown(P2) THEN P2
    ELSE IF Thrown(P3) THEN P3
    ELSE IF name.lexeme \notin OPERATOR_NAME_KEYS
        THEN Throw(P3, <<"unknown operatorname: ", name.lexeme>>)
    ELSE Call(P4, [Top(P) EXCEPT !.pc = "afterArgs", !.p = p,
                                 !.kind = OPERATOR_NAME_MAP(name.lexeme)],
              Frame("parseArgList", "entry"))

\* parseOperatorName: expect(RParenthesis); return _ast->addCall(it->second, args, p);
parseOperatorNameCall(P) ==
    LET Q == expect(P, "RParenthesis") IN
    IF Thrown(Q) THEN Q ELSE AddAndReturn(Q, CallNode(Top(P).kind, P.ret, Top(P).p))

\* parseArgList: args.push_back(parseExpression(0));
parseArgListEntry(P) ==
    Call(P, [Top(P) EXCEPT !.pc = "afterArg", !.args = <<>>], ExpressionFrame(0))

\* parseArgList: the push_back of the argument just parsed, then the while test
parseArgListNext(P) ==
    LET args == Append(Top(P).args, P.ret) IN
    IF peek(P).type = "Comma" THEN
        Call(advance(P), [Top(P) EXCEPT !.args = args], ExpressionFrame(0))
    ELSE Return(P, args)


(***************************************************************************)
(* Inputs.                                                                 *)
(***************************************************************************)
\* all sequences over A of length at most n
SeqsUpTo(A, n) == UNION {[1..k -> A] : k \in 0..n}

\* characters of the texts enumerated exhaustively: a digit, the fractional
\* mark, the exponent mark, the sign, a letter, the backslash, a blank, a
\* punctuation character and a character Tokenize does not know
LexAlphabet == {"1", ".", "e", "-", "x", "\\", " ", "(", "!"}

SmallDigits == {"1", "2", "3"}

\* a+b*c and a^b^c over integer literals
SumProductTexts == {<<a, "+", b, "*", c>> : a, b, c \in SmallDigits}

PowerChainTexts == {<<a, "^", b, "^", c>> : a, b, c \in SmallDigits}

\* an operand directly followed by "(", and the same with "*" written out
ProductTexts ==
    {<<"2", "(", "3", "+", "4", ")">>, <<"2", "*", "(", "3", "+", "4", ")">>,
     <<"x", "(", "y", "+", "z", ")">>, <<"x", "*", "(", "y", "+", "z", ")">>,
     <<"(", "x", ")", "(", "y", ")">>, <<"x", "^", "y", "(", "z", ")">>,
     <<"-", "x", "(", "y", ")">>, <<"x", "+", "y", "(", "z", ")">>,
     <<"x", "(", "y", ")", "(", "z", ")">>, <<"x", "(", "y">>}

CommandTexts ==
    {<<"\\", "p", "i">>, <<"\\", "e">>, <<"\\", "p", "i", " ">>, <<"\\", "e", " ">>,
     <<"\\", "p", "i", "+", "x", " ">>,
     <<"\\", "s", "q", "r", "t", "{", "4", "}">>,
     <<"\\", "s", "q", "r", "t", "{", "x", "}">>,
     <<"\\", "f", "r", "a", "c", "{", "1", "}", "{", "2", "}">>,
     <<"\\", "f", "o", "o", "{", "1", "}">>,
     <<"p", "i", " ">>}

LiteralTexts ==
    {<<"1", ".", "5", "e", "3">>, <<"1", "e", "-", "2", " ">>, <<"3", ".">>,
     <<"3", ".", "1", "4", " ", "*", "2">>, <<"1", "2", "+", "x", " ">>,
     <<"2", "1", "4", "7", "4", "8", "3", "6", "4", "8">>,
     <<"1", ".", "5", "e", "-", "3", " ">>}

\* texts that hold the character '\0', which a std::string can hold
NulTexts == {<<"x", NUL, "y">>, <<NUL, "x">>, <<"1", NUL, "+">>}

TextInputs ==
    SeqsUpTo(LexAlphabet, MaxLen) \cup SumProductTexts \cup PowerChainTexts
        \cup ProductTexts \cup CommandTexts \cup LiteralTexts \cup NulTexts

\* texts read in a later round of the driver's loop
LaterTextInputs == {<<"x", " ">>, <<"x", "+", "y", " ">>}

\* token shapes: a token without its position
Shape(type, lexeme, number) == Token(type, lexeme, 0, number)

Num(lexeme, v) == Shape("Number", lexeme, IntNumber(v, TRUE))

RealTok == Shape("Number", "1e1", DoubleNumber(1, 1, FALSE))

Ident(name) == Shape("Identifier", name, NoNumber)

Cmd(name) == Shape("Command", name, NoNumber)

Plus == Shape("Plus", "+", NoNumber)

Minus == Shape("Minus", "-", NoNumber)

Star == Shape("Star", "*", NoNumber)

Slash == Shape("Slash", "/", NoNumber)

Caret == Shape("Caret", "^", NoNumber)

Equals == Shape("Equals", "=", NoNumber)

Comma == Shape("Comma", ",", NoNumber)

LParen == Shape("LParenthesis", "(", NoNumber)

RParen == Shape("RParenthesis", ")", NoNumber)

LBrace == Shape("LBrace", "{", NoNumber)

RBrace == Shape("RBrace", "}", NoNumber)

EndTok == Shape("End", "", NoNumber)

\* an End-terminated token vector from shapes: the k-th token is at offset k-1
Toks(shapes) ==
    [k \in 1..(Len(shapes) + 1) |->
        [(IF k <= Len(shapes) THEN shapes[k] ELSE EndTok) EXCEPT !.pos = k - 1]]

\* token shapes of the sequences enumerated exhaustively
TokAlphabet ==
    {Num("2", 2), RealTok, Ident("x"), Ident("!"), Plus, Minus, Star, Caret,
     LParen, RParen, LBrace, RBrace, Comma,
     Cmd("frac"), Cmd("sqrt"), Cmd("pi"), Cmd("sin"), Cmd("foo"), Cmd("left"),
     Cmd("right"), Cmd("operatorname"), Cmd("cdot")}

InfixShapes ==
    {Plus, Minus, Star, Slash, Caret, Equals, Cmd("cdot"), Cmd("times"), Cmd("div")}

\* a op b op c over identifiers and over integer literals
ChainShapes ==
    {<<Ident("a"), o1, Ident("b"), o2, Ident("c")>> : o1, o2 \in InfixShapes}
    \cup {<<Num("1", 1), o1, Num("2", 2), o2, Num("3", 3)>> : o1, o2 \in InfixShapes}

Signed(neg, t) == IF neg THEN <<Minus, t>> ELSE <<t>>

FracInts == {Num("0", 0), Num("1", 1), Num("2", 2), Num("4", 4), Num("6", 6)}

\* \frac followed by exactly { [-] intLiteral } { [-] intLiteral }
FracFastShapes ==
    {<<Cmd("frac"), LBrace>> \o Signed(sn, n) \o <<RBrace, LBrace>> \o Signed(sd, d)
        \o <<RBrace>> : sn, sd \in BOOLEAN, n, d \in FracInts}

\* \frac followed by anything else
FracOtherShapes ==
    {<<Cmd("frac"), LBrace, Num("1", 1), Plus, Num("1", 1), RBrace, LBrace, Num("2", 2), RBrace>>,
     <<Cmd("frac"), LBrace, Ident("x"), RBrace, LBrace, Ident("y"), RBrace>>,
     <<Cmd("frac"), LBrace, Ident("x"), Plus, Ident("y"), RBrace, LBrace, Ident("z"), RBrace>>,
     <<Cmd("frac"), LBrace, Num("1", 1), RBrace, LBrace, Ident("y"), RBrace>>,
     <<Cmd("frac"), LBrace, Ident("x"), RBrace, LBrace, Num("2", 2), RBrace>>,
     <<Cmd("frac"), LBrace, RealTok, RBrace, LBrace, Num("2", 2), RBrace>>,
     <<Cmd("frac"), LBrace, Minus, Ident("x"), RBrace, LBrace, Ident("y"), RBrace>>,
     <<Cmd("frac"), LBrace, Minus, Minus, Num("1", 1), RBrace, LBrace, Num("2", 2), RBrace>>,
     <<Cmd("frac"), LBrace, Num("1", 1), RBrace, Num("2", 2)>>,
     <<Cmd("frac"), LBrace, Num("1", 1), RBrace, LBrace, Num("2", 2)>>,
     <<Cmd("frac"), LBrace, Ident("x"), RBrace, Ident("y")>>,
     <<Cmd("frac"), Ident("x"), Ident("y")>>}

SqrtShapes ==
    {<<Cmd("sqrt"), LBrace, Num("4", 4), RBrace>>,
     <<Cmd("sqrt"), LBrace, Ident("x"), RBrace>>,
     <<Cmd("sqrt"), LBrace, Ident("x"), Plus, Ident("y"), RBrace>>,
     <<Cmd("sqrt"), LBrace, Minus, Ident("x"), RBrace, Plus, Ident("y")>>,
     <<Cmd("sqrt"), LBrace, Cmd("sqrt"), LBrace, Ident("x"), RBrace, RBrace>>,
     <<Ident("y"), Caret, Cmd("sqrt"), LBrace, Ident("x"), RBrace>>,
     <<Cmd("sqrt"), Ident("x")>>,
     <<Cmd("sqrt"), LBrace, Ident("x")>>}

\* an operand directly followed by an opening parenthesis
ProductShapes ==
    {<<Num("2", 2), LParen, Num("3", 3), Plus, Num("4", 4), RParen>>,
     <<Ident("x"), LParen, Ident("y"), Plus, Ident("z"), RParen>>,
     <<LParen, Ident("x"), RParen, LParen, Ident("y"), RParen>>,
     <<Ident("x"), Caret, Ident("y"), LParen, Ident("z"), RParen>>,
     <<Minus, Ident("x"), LParen, Ident("y"), RParen>>,
     <<Ident("x"), Plus, Ident("y"), LParen, Ident("z"), RParen>>,
     <<Ident("x"), LParen, Ident("y"), RParen, Caret, Ident("z")>>,
     <<Cmd("pi"), LParen, Ident("y"), RParen>>,
     <<Cmd("sin"), Ident("x"), LParen, Ident("y"), RParen>>,
     <<Cmd("sqrt"), LBrace, Ident("x"), RBrace, LParen, Ident("y"), RParen>>,
     <<Ident("x"), LParen, Ident("y"), RParen, LParen, Ident("z"), RParen>>,
     <<Ident("x"), Ident("!"), LParen, Ident("y"), RParen>>}

OtherShapes ==
    {<<Ident("x"), Ident("!"), Plus, Ident("y")>>,
     <<Ident("x"), Plus, Ident("y"), Ident("!"), Star, Ident("z")>>,
     <<Cmd("left"), LParen, Ident("x"), Cmd("right"), RParen>>,
     <<Cmd("left"), LParen, Ident("x"), RParen>>,
     <<Cmd("sin"), LBrace, Ident("x"), RBrace>>,
     <<Cmd("sin"), LParen, Ident("x"), RParen>>,
     <<Cmd("operatorname"), LBrace, Ident("max"), RBrace, LParen, Ident("x"), Comma,
       Ident("y"), RParen>>,
     <<Cmd("operatorname"), LBrace, Ident("sup"), RBrace, LParen, Ident("x"), RParen>>,
     <<Cmd("e"), Plus, Cmd("pi")>>, <<Cmd("e")>>,
     <<Cmd("\\pi")>>, <<Cmd("\\e")>>,
     <<Ident("x"), LBrace, Ident("y"), RBrace>>,
     <<Ident("x"), Cmd("arcsin"), Ident("y")>>,
     <<Ident("x"), Cmd("sin"), Ident("y")>>,
     <<Cmd("left"), LParen, Ident("x"), Cmd("right")>>,
     <<Cmd("sin"), LParen, Ident("x")>>,
     <<Cmd("operatorname"), LBrace, Ident("max"), RBrace, LParen, Ident("x")>>}

TokenInputs ==
    {Toks(sh) : sh \in SeqsUpTo(TokAlphabet, MaxToks) \cup ChainShapes
        \cup FracFastShapes \cup FracOtherShapes \cup SqrtShapes \cup ProductShapes
        \cup OtherShapes}

\* token vectors handed to a later parse call on the same Parser
LaterTokenInputs == {Toks(<<Ident("x")>>), Toks(<<Ident("x"), Plus, Ident("y")>>)}

\* what the memory behind the end of the vector may read as
GarbageTokens ==
    {Token("End", "", 0, NoNumber), Token("RParenthesis", ")", 0, NoNumber),
     Token("Identifier", "q", 0, NoNumber)}

\* no End token at or after the cursor: the cursor can leave the vector
NeedsGarbage(toks, pos) == \A k \in (pos + 1)..Len(toks) : toks[k].type # "End"


(***************************************************************************)
(* The state machine.                                                      *)
(***************************************************************************)
\* the Parser, its AST and its call stack as one record
CurP ==
    [tokens |-> _tokens, pos |-> _pos, arena |-> arena, root |-> root,
     stack |-> stack, ret |-> ret, pstate |-> pstate, result |-> result,
     error |-> error, garbage |-> garbage]

SetP(Q) ==
    /\ _tokens' = Q.tokens /\ _pos' = Q.pos /\ arena' = Q.arena /\ root' = Q.root
    /\ stack' = Q.stack /\ ret' = Q.ret /\ pstate' = Q.pstate /\ result' = Q.result
    /\ error' = Q.error /\ garbage' = Q.garbage
    /\ UNCHANGED <<calls, input, i, s, buffer, startPos, tokens, lexResult>>

\* the function on top of the stack is fn, at one of the program points pcs
PAt(P, fn, pcs) ==
    P.pstate = "running" /\ P.stack # <<>> /\ Top(P).fn = fn /\ Top(P).pc \in pcs

At(fn, pcs) == PAt(CurP, fn, pcs)

\* the state in which Parser::parse(toks, ast) has called parseExpression(0):
\* _tokens and _ast are set, _pos and the arena are left as they are
parseEntry(P, toks, g) ==
    [P EXCEPT !.tokens = toks, !.garbage = g, !.pstate = "running",
              !.stack = <<Frame("parse", "afterExpression"), ExpressionFrame(0)>>,
              !.ret = None, !.result = FALSE, !.error = NoError]

Idle == pstate \in {"idle", "returned"} /\ calls < MaxCalls

ParseCall(toks) ==
    /\ Idle
    /\ \E g \in (IF NeedsGarbage(toks, _pos) THEN GarbageTokens ELSE {NoGarbage}) :
        LET Q == parseEntry(CurP, toks, g) IN
        /\ _tokens' = Q.tokens /\ _pos' = Q.pos /\ arena' = Q.arena /\ root' = Q.root
        /\ stack' = Q.stack /\ ret' = Q.ret /\ pstate' = Q.pstate
        /\ result' = Q.result /\ error' = Q.error /\ garbage' = Q.garbage
    /\ calls' = calls + 1

\* main: Tokenize(input, tokens) on a fresh token vector
TokenizeCall ==
    /\ Idle /\ lexResult \in {"idle", "parsed"}
    /\ input' \in (IF calls = 0 THEN TextInputs ELSE LaterTextInputs)
    /\ i' = 0 /\ s' = "Start" /\ buffer' = <<>> /\ startPos' = 0 /\ tokens' = <<>>
    /\ lexResult' = "running"
    /\ UNCHANGED parVars

\* main: parser.parse(tokens, ast) after Tokenize has returned true
ParseTokenized ==
    /\ lexResult = "true"
    /\ ParseCall(tokens)
    /\ lexResult' = "parsed"
    /\ UNCHANGED <<input, i, s, buffer, startPos, tokens>>

\* Parser::parse called on an End-terminated token vector built by the caller
ParseDirect ==
    /\ lexResult \in {"idle", "parsed"}
    /\ \E toks \in (IF calls = 0 THEN TokenInputs ELSE LaterTokenInputs) : ParseCall(toks)
    /\ input' = <<>> /\ i' = 0 /\ s' = "Start" /\ buffer' = <<>> /\ startPos' = 0
    /\ tokens' = <<>> /\ lexResult' = "idle"

ParseReturn == At("parse", {"afterExpression"}) /\ SetP(parseReturn(CurP))

ParseExpressionEntry == At("parseExpression", {"entry"}) /\ SetP(parseExpressionEntry(CurP))

ParseExpressionLoop ==
    At("parseExpression", {"afterPrefix", "loop"}) /\ SetP(parseExpressionLoop(CurP))

ParseExpressionCombine ==
    At("parseExpression", {"afterInfix", "afterImplicit"})
        /\ SetP(parseExpressionCombine(CurP))

ParsePrefixEntry == At("parsePrefix", {"entry"}) /\ SetP(parsePrefixEntry(CurP))

ParsePrefixNegate == At("parsePrefix", {"afterNegate"}) /\ SetP(parsePrefixNegate(CurP))

ParsePrefixParen == At("parsePrefix", {"afterParen"}) /\ SetP(parsePrefixParen(CurP))

ParseNumber == At("parseNumber", {"entry"}) /\ SetP(parseNumber(CurP))

ParseCommandEntry == At("parseCommand", {"entry"}) /\ SetP(parseCommandEntry(CurP))

ParseCommandSqrtHalf ==
    At("parseCommand", {"afterSqrtArg"}) /\ SetP(parseCommandSqrtHalf(CurP))

ParseCommandSqrtPower ==
    At("parseCommand", {"afterHalf"}) /\ SetP(parseCommandSqrtPower(CurP))

ParseBraceGroupEntry == At("parseBraceGroup", {"entry"}) /\ SetP(parseBraceGroupEntry(CurP))

ParseBraceGroupClose ==
    At("parseBraceGroup", {"afterInner"}) /\ SetP(parseBraceGroupClose(CurP))

ParseLeftRightEntry == At("parseLeftRight", {"entry"}) /\ SetP(parseLeftRightEntry(CurP))

ParseLeftRightClose ==
    At("parseLeftRight", {"afterInner"}) /\ SetP(parseLeftRightClose(CurP))

ParseFractionEntry ==
    /\ At("parseFraction", {"entry"})
    /\ \E ub \in DivZeroOutcomes : SetP(parseFractionEntry(CurP, ub))

ParseFractionDenominator ==
    At("parseFraction", {"afterNumerator"}) /\ SetP(parseFractionDenominator(CurP))

ParseFractionDivide ==
    At("parseFraction", {"afterDenominator"}) /\ SetP(parseFractionDivide(CurP))

ParseSingleArgFunctionEntry ==
    At("parseSingleArgFunction", {"entry"}) /\ SetP(parseSingleArgFunctionEntry(CurP))

ParseSingleArgFunctionCall ==
    At("parseSingleArgFunction", {"afterArg", "afterParenArg"})
        /\ SetP(parseSingleArgFunctionCall(CurP))

ParseOperatorNameEntry ==
    At("parseOperatorName", {"entry"}) /\ SetP(parseOperatorNameEntry(CurP))

ParseOperatorNameCall ==
    At("parseOperatorName", {"afterArgs"}) /\ SetP(parseOperatorNameCall(CurP))

ParseArgListEntry == At("parseArgList", {"entry"}) /\ SetP(parseArgListEntry(CurP))

ParseArgListNext == At("parseArgList", {"afterArg"}) /\ SetP(parseArgListNext(CurP))

\* the program points whose code starts by reading the current token
ReadsToken(P) ==
    \/ PAt(P, "parse", {"afterExpression"})
    \/ PAt(P, "parseExpression", {"afterPrefix", "loop", "afterImplicit"})
    \/ PAt(P, "parsePrefix", {"entry", "afterParen"})
    \/ PAt(P, "parseNumber", {"entry"})
    \/ PAt(P, "parseCommand", {"entry"})
    \/ PAt(P, "parseBraceGroup", {"entry", "afterInner"})
    \/ PAt(P, "parseLeftRight", {"entry", "afterInner"})
    \/ PAt(P, "parseFraction", {"entry"})
    \/ PAt(P, "parseSingleArgFunction", {"entry", "afterParenArg"})
    \/ PAt(P, "parseOperatorName", {"entry", "afterArgs"})
    \/ PAt(P, "parseArgList", {"afterArg"})

\* (*_tokens)[_pos] with _pos >= size() is undefined behaviour: besides
\* reading some token, the access can fault
ReadPastEnd ==
    /\ ReadsToken(CurP) /\ _pos >= Len(_tokens)
    /\ SetP(Crash(CurP))

Lex ==
    \/ LexStart \/ LexNumber \/ LexNumberFracMark \/ LexNumberFrac
    \/ LexNumberExpMark \/ LexNumberExpSign \/ LexNumberExp
    \/ LexIdentifier \/ LexCommand \/ LexLoopExit

Parse ==
    \/ ParseReturn \/ ParseExpressionEntry \/ ParseExpressionLoop
    \/ ParseExpressionCombine \/ ParsePrefixEntry \/ ParsePrefixNegate
    \/ ParsePrefixParen \/ ParseNumber \/ ParseCommandEntry
    \/ ParseCommandSqrtHalf \/ ParseCommandSqrtPower
    \/ ParseBraceGroupEntry \/ ParseBraceGroupClose
    \/ ParseLeftRightEntry \/ ParseLeftRightClose
    \/ ParseFractionEntry \/ ParseFractionDenominator \/ ParseFractionDivide
    \/ ParseSingleArgFunctionEntry \/ ParseSingleArgFunctionCall
    \/ ParseOperatorNameEntry \/ ParseOperatorNameCall
    \/ ParseArgListEntry \/ ParseArgListNext
    \/ ReadPastEnd

Init ==
    /\ input = <<>> /\ i = 0 /\ s = "Start" /\ buffer = <<>> /\ startPos = 0
    /\ tokens = <<>> /\ lexResult = "idle"
    /\ _tokens = <<>> /\ _pos = 0 /\ arena = <<>> /\ root = None /\ stack = <<>>
    /\ ret = None /\ pstate = "idle" /\ result = FALSE /\ error = NoError
    /\ garbage = NoGarbage /\ calls = 0

Next ==
    \/ TokenizeCall
    \/ Lex
    \/ ParseTokenized
    \/ ParseDirect
    \/ Parse

Spec == Init /\ [][Next]_vars


(***************************************************************************)
(* Notions the properties are stated with.                                 *)
(***************************************************************************)
RECURSIVE Tree(_, _)
\* the tree below node id of arena a: node kinds, payloads and children,
\* without the source positions
Tree(a, id) ==
    IF id < 0 \/ id >= Len(a) THEN <<"None">>
    ELSE LET n == a[id + 1] IN
         CASE n.k = "Constant" -> <<"Constant", n.cKind>>
           [] n.k = "Real" -> <<"Real", n.value>>
           [] n.k = "Rational" -> <<"Rational", n.numerator, n.denominator>>
           [] n.k = "Identifier" -> <<"Identifier", n.name>>
           [] n.k = "BinaryOp" -> <<n.bKind, Tree(a, n.left), Tree(a, n.right)>>
           [] n.k = "UnaryOp" -> <<n.uKind, Tree(a, n.inner)>>
           [] n.k = "Call" -> <<"Call", n.fKind, [j \in 1..Len(n.args) |-> Tree(a, n.args[j])]>>

\* one step of the parser as a function of its state (a division by zero traps)
Step(P) ==
    LET f == Top(P) IN
    CASE f.fn = "parse" -> parseReturn(P)
      [] f.fn = "parseExpression" /\ f.pc = "entry" -> parseExpressionEntry(P)
      [] f.fn = "parseExpression" /\ f.pc \in {"afterPrefix", "loop"} -> parseExpressionLoop(P)
      [] f.fn = "parseExpression" /\ f.pc \in {"afterInfix", "afterImplicit"} ->
            parseExpressionCombine(P)
      [] f.fn = "parsePrefix" /\ f.pc = "entry" -> parsePrefixEntry(P)
      [] f.fn = "parsePrefix" /\ f.pc = "afterNegate" -> parsePrefixNegate(P)
      [] f.fn = "parsePrefix" /\ f.pc = "afterParen" -> parsePrefixParen(P)
      [] f.fn = "parseNumber" -> parseNumber(P)
      [] f.fn = "parseCommand" /\ f.pc = "entry" -> parseCommandEntry(P)
      [] f.fn = "parseCommand" /\ f.pc = "afterSqrtArg" -> parseCommandSqrtHalf(P)
      [] f.fn = "parseCommand" /\ f.pc = "afterHalf" -> parseCommandSqrtPower(P)
      [] f.fn = "parseBraceGroup" /\ f.pc = "entry" -> parseBraceGroupEntry(P)
      [] f.fn = "parseBraceGroup" /\ f.pc = "afterInner" -> parseBraceGroupClose(P)
      [] f.fn = "parseLeftRight" /\ f.pc = "entry" -> parseLeftRightEntry(P)
      [] f.fn = "parseLeftRight" /\ f.pc = "afterInner" -> parseLeftRightClose(P)
      [] f.fn = "parseFraction" /\ f.pc = "entry" -> parseFractionEntry(P, "trap")
      [] f.fn = "parseFraction" /\ f.pc = "afterNumerator" -> parseFractionDenominator(P)
      [] f.fn = "parseFraction" /\ f.pc = "afterDenominator" -> parseFractionDivide(P)
      [] f.fn = "parseSingleArgFunction" /\ f.pc = "entry" -> parseSingleArgFunctionEntry(P)
      [] f.fn = "parseSingleArgFunction" -> parseSingleArgFunctionCall(P)
      [] f.fn = "parseOperatorName" /\ f.pc = "entry" -> parseOperatorNameEntry(P)
      [] f.fn = "parseOperatorName" -> parseOperatorNameCall(P)
      [] f.fn = "parseArgList" /\ f.pc = "entry" -> parseArgListEntry(P)
      [] f.fn = "parseArgList" -> parseArgListNext(P)

RECURSIVE RunParse(_)
\* the state in which a parse leaves the parser
RunParse(P) == IF P.pstate # "running" THEN P ELSE RunParse(Step(P))

\* a Parser and an AST as constructed
FreshP ==
    [tokens |-> <<>>, pos |-> 0, arena |-> <<>>, root |-> None, stack |-> <<>>,
     ret |-> None, pstate |-> "idle", result |-> FALSE, error |-> NoError,
     garbage |-> NoGarbage]

\* the parse has ended: parse returned, an exception left it, or it crashed
PDone == pstate \in {"returned", "thrown", "crashed"}

\* the tree the last parse left at the root
RootTree == Tree(arena, root)

\* the first parse call on this Parser
FirstCall == calls = 1

\* the parser's tokens are those Tokenize produced from the text
ParsingText(text) == lexResult = "parsed" /\ input = text

R(n, d) == <<"Rational", n, d>>

Id(name) == <<"Identifier", name>>


(***************************************************************************)
(* Properties.                                                             *)
(***************************************************************************)
Last(q) == q[Len(q)]

\* C1: whenever Tokenize has reported success, the token sequence ends with
\* exactly one End token, positioned at len(input), and holds no End token
\* before it, whatever state the lexer was in at the end of the input.
C1_EndsWithOneEnd ==
    lexResult = "true" =>
        /\ tokens # <<>>
        /\ Last(tokens).type = "End"
        /\ Last(tokens).pos = Len(input)
        /\ \A k \in 1..(Len(tokens) - 1) : tokens[k].type # "End"

\* C2: every prefix term that is parsed consumes at least one token, a Number
\* literal included: the step that parses a Number literal moves the cursor
\* forward (so that the parseExpression loop cannot repeat on the same token
\* and the parse ends after finitely many nodes).
C2_NumberConsumesToken == [][ParseNumber => _pos' > _pos]_vars

\* C3: a Number token is integer-flagged if and only if the lexer was in the
\* Number (pure digit) state for the whole literal, that is, still in Number
\* when the token is committed; a literal committed from NumberFrac or
\* NumberExp is float-valued.
C3_IntegerIffPureDigits ==
    [][(Len(tokens') = Len(tokens) + 1 /\ Last(tokens').type = "Number")
        => (TokenIsInt(Last(tokens')) <=> s = "Number")]_vars

\* C4: every Rational node in the arena has denominator > 0 and
\* gcd(|numerator|, denominator) = 1, the sign being on the numerator.
C4_RationalsReduced ==
    \A k \in 1..Len(arena) :
        arena[k].k = "Rational" =>
            /\ arena[k].denominator > 0
            /\ Gcd(Abs(arena[k].numerator), arena[k].denominator) = 1

\* C5: tokenizing then parsing a+b*c over integer literals ends with parse
\* returning the root Add(Rational(a,1), Multiply(Rational(b,1), Rational(c,1))).
C5_ProductBindsTighter ==
    \A a, b, c \in SmallDigits :
        (FirstCall /\ PDone /\ ParsingText(<<a, "+", b, "*", c>>)) =>
            /\ pstate = "returned"
            /\ RootTree = <<"Add", R(DigitVal(a), 1),
                            <<"Multiply", R(DigitVal(b), 1), R(DigitVal(c), 1)>>>>

\* C6: tokenizing then parsing a^b^c over integer literals (such as 2^3^2)
\* ends with parse returning the root Power(a, Power(b, c)).
C6_PowerRightAssociative ==
    \A a, b, c \in SmallDigits :
        (FirstCall /\ PDone /\ ParsingText(<<a, "^", b, "^", c>>)) =>
            /\ pstate = "returned"
            /\ RootTree = <<"Power", R(DigitVal(a), 1),
                            <<"Power", R(DigitVal(b), 1), R(DigitVal(c), 1)>>>>

\* the token vectors \frac { [-] n } { [-] d } with n, d not both zero
FracFastInputs ==
    {Toks(sh) : sh \in {f \in FracFastShapes :
        f[Len(f) - 1].number.value # 0 \/ f[IF f[3].type = "Minus" THEN 4 ELSE 3].number.value # 0}}

\* the token vectors \frac {expr} {expr} whose arguments are not both a
\* signed integer literal
FracGeneralInputs ==
    {Toks(<<Cmd("frac"), LBrace, Num("1", 1), Plus, Num("1", 1), RBrace,
            LBrace, Num("2", 2), RBrace>>),
     Toks(<<Cmd("frac"), LBrace, Ident("x"), RBrace, LBrace, Ident("y"), RBrace>>),
     Toks(<<Cmd("frac"), LBrace, Ident("x"), Plus, Ident("y"), RBrace,
            LBrace, Ident("z"), RBrace>>),
     Toks(<<Cmd("frac"), LBrace, Num("1", 1), RBrace, LBrace, Ident("y"), RBrace>>),
     Toks(<<Cmd("frac"), LBrace, Ident("x"), RBrace, LBrace, Num("2", 2), RBrace>>)}

\* C7: after \frac, the shape { [-] int } { [-] int } adds exactly one node,
\* a Rational, and no Divide node; any other pair of brace groups, such as
\* {1+1}{2}, ends with parse returning a Divide node at the root.
C7_FractionPaths ==
    (FirstCall /\ PDone) =>
        /\ _tokens \in FracFastInputs =>
            /\ pstate = "returned"
            /\ Len(arena) = 1 /\ arena[1].k = "Rational"
        /\ _tokens \in FracGeneralInputs =>
            /\ pstate = "returned"
            /\ arena[root + 1].k = "BinaryOp" /\ arena[root + 1].bKind = "Divide"

\* token k ends an operand: a literal, an identifier, or the closing bracket
\* of a group (the postfix operator ! and the brace that closes the name of
\* an \operatorname are not operands)
OperandEnd(toks, k) ==
    \/ toks[k].type \in {"Number", "RParenthesis"}
    \/ toks[k].type = "Identifier" /\ toks[k].lexeme # "!"
    \/ /\ toks[k].type = "RBrace"
       /\ ~(k > 3 /\ toks[k - 2].type = "LBrace" /\ toks[k - 3].type = "Command"
                  /\ toks[k - 3].lexeme = "operatorname")

\* an operand directly followed by an opening parenthesis
ImplicitBoundary(toks, k) ==
    k \in 1..(Len(toks) - 1) /\ OperandEnd(toks, k) /\ toks[k + 1].type = "LParenthesis"

\* the same input with an explicit * written after token k
InsertStar(toks, k) ==
    [j \in 1..(Len(toks) + 1) |->
        IF j <= k THEN toks[j]
        ELSE IF j = k + 1 THEN Token("Star", "*", toks[k + 1].pos, NoNumber)
        ELSE [toks[j - 1] EXCEPT !.pos = @ + 1]]

\* what a parse leaves behind, positions aside
Outcome(P) ==
    <<P.pstate, P.result, IF P.pstate = "returned" THEN Tree(P.arena, P.root) ELSE <<"None">>>>

CommandText(name) ==
    CASE name = "pi" -> {<<"\\", "p", "i">>, <<"\\", "p", "i", " ">>}
      [] name = "e" -> {<<"\\", "e">>, <<"\\", "e", " ">>}

\* C9: for every name of the parser's constant table, tokenizing the text
\* \name and parsing the tokens ends with parse returning a single Constant
\* node of the mapped kind.
C9_CommandDispatchedByName ==
    \A name \in CONSTANT_KEYS : \A text \in CommandText(name) :
        (FirstCall /\ PDone /\ ParsingText(text)) =>
            /\ pstate = "returned"
            /\ Len(arena) = 1
            /\ RootTree = <<"Constant", CONSTANT_MAP(name)>>

\* C10: \sqrt followed by a brace group {x} parses to Power(x, Rational(1,2)):
\* \sqrt{4} to Power(Rational(4,1), Rational(1,2)), \sqrt{x} to
\* Power(x, Rational(1,2)), \sqrt{x+y} to Power(Add(x, y), Rational(1,2)).
C10_SqrtIsPowerHalf ==
    (FirstCall /\ PDone) =>
        /\ _tokens = Toks(<<Cmd("sqrt"), LBrace, Num("4", 4), RBrace>>) =>
            pstate = "returned" /\ RootTree = <<"Power", R(4, 1), R(1, 2)>>
        /\ _tokens = Toks(<<Cmd("sqrt"), LBrace, Ident("x"), RBrace>>) =>
            pstate = "returned" /\ RootTree = <<"Power", Id("x"), R(1, 2)>>
        /\ _tokens = Toks(<<Cmd("sqrt"), LBrace, Ident("x"), Plus, Ident("y"), RBrace>>) =>
            pstate = "returned" /\ RootTree = <<"Power", <<"Add", Id("x"), Id("y")>>, R(1, 2)>>

\* the lexer is in the Number state and the current character ends the literal
IntegerLiteralEnds ==
    Lexing("Number") /\ CharAt(i) \notin Digits \cup {".", "e", "E"}

\* C11: every integer literal without fractional or exponent part is committed
\* as an integer-flagged Number token (holding the literal's value), and
\* parseNumber adds a Rational leaf (value, 1) for an integer-flagged token
\* and a Real leaf for any other Number token.
C11_IntegerLiteralIsRational ==
    [][/\ (IntegerLiteralEnds /\ LexNumber) =>
            /\ Len(tokens') = Len(tokens) + 1
            /\ Last(tokens').type = "Number" /\ TokenIsInt(Last(tokens'))
            /\ FitsInt(buffer) => Last(tokens').number.value = DecValue(StripZeros(buffer))
       /\ (ParseNumber /\ CanAdd(CurP)) =>
            /\ Len(arena') = Len(arena) + 1
            /\ LET t == peek(CurP)
                   leaf == Last(arena')
               IN IF TokenIsInt(t)
                  THEN leaf.k = "Rational" /\ leaf.numerator = t.number.value
                       /\ leaf.denominator = 1
                  ELSE leaf.k = "Real"
      ]_vars

\* tokens are left over: the cursor is on a token of the vector that is not End
TrailingTokens == _pos < Len(_tokens) /\ _tokens[_pos + 1].type # "End"

\* C12: whenever parse has returned, it reported success only if the current
\* token is the End sentinel; with tokens left over after the top-level
\* expression it reported failure.
C12_SuccessOnlyAtEnd ==
    pstate = "returned" =>
        /\ result => peek(CurP).type = "End"
        /\ TrailingTokens => ~result

\* parse has returned failure on an identifier followed by a stray ")"
C12_Witness ==
    /\ pstate = "returned" /\ ~result /\ TrailingTokens
    /\ _tokens = Toks(<<Ident("x"), RParen>>)
    /\ RootTree = Id("x")

\* the character at the cursor cannot continue the text in the lexer's state
Malformed ==
    /\ lexResult = "running" /\ i <= Len(input)
    /\ LET c == CharAt(i) IN
       \/ /\ s = "Start" /\ c # NUL
          /\ ~isspace(c) /\ ~isalnum(c) /\ c \notin {".", "\\"}
          /\ c \notin {"{", "}", "(", ")", "[", "]", ",", "+", "-", "*", "/", "^", "_", "="}
       \/ s = "NumberFracMark" /\ ~isdigit(c)
       \/ s = "NumberExpMark" /\ ~isdigit(c) /\ c # "-"
       \/ s = "NumberExpSign" /\ ~isdigit(c)

NoEndToken(toks) == \A k \in 1..Len(toks) : toks[k].type # "End"

KnownCommands ==
    CONSTANT_KEYS \cup FUNCTION_KIND_KEYS \cup {"operatorname", "frac", "sqrt", "left"}

\* C14: when parseCommand is entered (a Command token at prefix position) with
\* a name that is none of the known ones, the parse is aborted by an
\* unknown-command failure naming the command; no root is assigned and no
\* node is added.
C14_UnknownCommandAborts ==
    [][(ParseCommandEntry /\ peek(CurP).lexeme \notin KnownCommands) =>
            /\ pstate' = "thrown"
            /\ error' = <<"unknown command: \\", peek(CurP).lexeme>>
            /\ root' = root /\ arena' = arena
      ]_vars

\* the first parse of this Parser was aborted on the command foo
C14_Witness ==
    /\ FirstCall /\ pstate = "thrown" /\ root = None
    /\ error = <<"unknown command: \\", "foo">>
    /\ peek(CurP).type = "Command" /\ peek(CurP).lexeme = "foo"

\* the text of the input from offset pos, n characters long
Substring(pos, n) ==
    IF pos + n <= Len(input) THEN Join(SubSeq(input, pos + 1, pos + n)) ELSE "out of range"

\* C15: every token Tokenize has produced, End excepted, has as lexeme the
\* substring of the input that starts at the token's position, Number tokens
\* as well as Identifier, Command and punctuation tokens.
C15_LexemeAtPosition ==
    lexResult \in {"running", "true", "false"} =>
        \A k \in 1..Len(tokens) :
            tokens[k].type # "End" =>
                Substring(tokens[k].pos, Len(tokens[k].lexeme)) = tokens[k].lexeme

\* the child handles of a node
Children(n) ==
    CASE n.k = "BinaryOp" -> {n.left, n.right}
      [] n.k = "UnaryOp" -> {n.inner}
      [] n.k = "Call" -> {n.args[j] : j \in 1..Len(n.args)}
      [] OTHER -> {}

\* C16: in every state, each child handle held by a BinaryOp, UnaryOp or Call
\* node of the arena is not None and is smaller than the node's own index.
C16_ChildrenBeforeParents ==
    \A k \in 1..Len(arena) :
        \A c \in Children(arena[k]) : c # None /\ 0 <= c /\ c < k - 1

\* \sqrt{-x}+y has been parsed: the arena holds UnaryOp and BinaryOp nodes
C16_Witness ==
    /\ pstate = "returned" /\ result
    /\ RootTree = <<"Add", <<"Power", <<"Negate", Id("x")>>, R(1, 2)>>, Id("y")>>
    /\ \E k \in 1..Len(arena) : arena[k].k = "UnaryOp" /\ arena[k].inner = k - 2

EndTerminated(toks) == toks # <<>> /\ Last(toks).type = "End" /\ NoEndToken(SubSeq(toks, 1, Len(toks) - 1))

\* C17: on a Parser that has completed earlier parse calls, a parse of an
\* End-terminated token sequence ends as it ends on a fresh Parser: same
\* success or failure and same tree at the root.
C17_CallsIndependent ==
    (PDone /\ ~FirstCall /\ EndTerminated(_tokens)) =>
        Outcome(CurP) = Outcome(RunParse(parseEntry(FreshP, _tokens, NoGarbage)))

\* C18: after a postfix ! the loop goes on with the token that follows it:
\* x ! + y parses to Add(Factorial(x), y), and x + y ! * z parses to
\* Add(x, Multiply(Factorial(y), z)), both with success.
C18_PostfixThenInfix ==
    (FirstCall /\ PDone) =>
        /\ _tokens = Toks(<<Ident("x"), Ident("!"), Plus, Ident("y")>>) =>
            /\ pstate = "returned" /\ result
            /\ RootTree = <<"Add", <<"Factorial", Id("x")>>, Id("y")>>
        /\ _tokens = Toks(<<Ident("x"), Plus, Ident("y"), Ident("!"), Star, Ident("z")>>) =>
            /\ pstate = "returned" /\ result
            /\ RootTree = <<"Add", Id("x"), <<"Multiply", <<"Factorial", Id("y")>>, Id("z")>>>>

\* parsePrefix has been called for the right operand of an implicit product:
\* canImplicitMultiply was true on the token that is still the current one
ViaImplicit ==
    /\ Len(stack) >= 3
    /\ stack[Len(stack) - 2].fn = "parseExpression" /\ stack[Len(stack) - 2].pc = "afterImplicit"
    /\ stack[Len(stack) - 1].fn = "parseExpression" /\ stack[Len(stack) - 1].pc = "afterPrefix"
    /\ canImplicitMultiply(CurP)

\* C19: when canImplicitMultiply was true for the current token, parsePrefix
\* (and parseCommand, for a command) accepts that token: the step raises
\* neither "unexpected token" nor "unknown command".
C19_ImplicitOperandAccepted ==
    [][(ViaImplicit /\ (ParsePrefixEntry \/ ParseCommandEntry)) =>
            ~(/\ pstate' = "thrown"
              /\ error'[1] \in {"unexpected token at pos ", "unknown command: \\"})
      ]_vars

\* the precedence level of an infix operator as the binding power table
\* gives it, and the node kind it builds
Level(o) ==
    CASE o = Equals -> 1
      [] o \in {Plus, Minus} -> 3
      [] o \in {Star, Slash, Cmd("cdot"), Cmd("times"), Cmd("div")} -> 5

KindOf(o) ==
    CASE o = Equals -> "Equals" [] o = Plus -> "Add" [] o = Minus -> "Subtract"
      [] o \in {Star, Cmd("cdot"), Cmd("times")} -> "Multiply"
      [] o \in {Slash, Cmd("div")} -> "Divide"

\* the plain operator an infix command stands for
PlainOp(o) ==
    IF o \in {Cmd("cdot"), Cmd("times")} THEN Star ELSE IF o = Cmd("div") THEN Slash ELSE o

LeftGroupingOps == InfixShapes \ {Caret}

IdentChain(o1, o2) == Toks(<<Ident("a"), o1, Ident("b"), o2, Ident("c")>>)

\* C20: over identifiers, a o1 b o2 c with o1 and o2 of one level (= ; + - ;
\* * / cdot times div) parses to o2(o1(a, b), c), and a chain written with
\* cdot, times or div parses as the chain written with *, * or /.
C20_LeftGrouping ==
    (FirstCall /\ PDone) =>
        \A o1, o2 \in LeftGroupingOps :
            _tokens = IdentChain(o1, o2) =>
                /\ pstate = "returned" /\ result
                /\ Level(o1) = Level(o2) =>
                    RootTree = <<KindOf(o2), <<KindOf(o1), Id("a"), Id("b")>>, Id("c")>>
                /\ Outcome(CurP) =
                    Outcome(RunParse(parseEntry(FreshP, IdentChain(PlainOp(o1), PlainOp(o2)),
                                                NoGarbage)))

\* a - b - c has been parsed to Subtract(Subtract(a, b), c)
C20_Witness ==
    /\ FirstCall /\ pstate = "returned" /\ result
    /\ _tokens = IdentChain(Minus, Minus)
    /\ RootTree = <<"Subtract", <<"Subtract", Id("a"), Id("b")>>, Id("c")>>

\* the parse is where a closing delimiter is required, and the current token
\* (a token of the vector) is not that delimiter
CloserMissing ==
    /\ _pos < Len(_tokens)
    /\ \/ At("parsePrefix", {"afterParen"}) /\ peek(CurP).type # "RParenthesis"
       \/ At("parseBraceGroup", {"afterInner"}) /\ peek(CurP).type # "RBrace"
       \/ At("parseSingleArgFunction", {"afterParenArg"}) /\ peek(CurP).type # "RParenthesis"
       \/ At("parseOperatorName", {"afterArgs"}) /\ peek(CurP).type # "RParenthesis"
       \/ At("parseLeftRight", {"afterInner"})
            /\ ~(peek(CurP).type = "Command" /\ peek(CurP).lexeme = "right")

\* \right is the current token and the token after it is not ")"
RightCloserMissing ==
    /\ _pos + 1 < Len(_tokens)
    /\ At("parseLeftRight", {"afterInner"})
    /\ peek(CurP).type = "Command" /\ peek(CurP).lexeme = "right"
    /\ TokAt(CurP, _pos + 1).type # "RParenthesis"

\* C21: where ")" after "(", "}" after "{", \right after \left( expr, or ")"
\* after \right is required and another token (End included) is found, the
\* step aborts the parse with a failure, the cursor stays on the offending
\* token, and no node and no root is added.
C21_MissingCloserAborts ==
    [][/\ CloserMissing =>
            /\ pstate' = "thrown" /\ error'[1] \in {"expected ", "expected \\right"}
            /\ _pos' = _pos /\ arena' = arena /\ root' = root
       /\ RightCloserMissing =>
            /\ pstate' = "thrown" /\ error'[1] = "expected "
            /\ _pos' = _pos + 1 /\ arena' = arena /\ root' = root
      ]_vars

\* ( x End: the parse has been aborted at End, where ")" was required
C21_Witness ==
    /\ FirstCall /\ pstate = "thrown" /\ error[1] = "expected "
    /\ _tokens = Toks(<<LParen, Ident("x")>>)
    /\ peek(CurP).type = "End" /\ root = None

\* literals digits '.' digits with an exponent part, alone in the text
FracExpTexts == {<<"1", ".", "5", "e", "3">>, <<"1", ".", "5", "e", "-", "3", " ">>}

\* the literal of such a text: the text without its trailing blank
LiteralOf(text) ==
    Join(IF text[Len(text)] = " " THEN SubSeq(text, 1, Len(text) - 1) ELSE text)

\* C22: a literal digits '.' digits followed by an exponent part, such as
\* 1.5e3, is lexed as one float-valued Number token whose lexeme is the whole
\* literal; no other token than End follows it.
C22_FracExpIsOneNumber ==
    (lexResult = "true" /\ input \in FracExpTexts) =>
        /\ tokens # <<>>
        /\ tokens[1].type = "Number" /\ tokens[1].lexeme = LiteralOf(input)
        /\ ~TokenIsInt(tokens[1])
        /\ \A k \in 2..Len(tokens) : tokens[k].type = "End"

IsIntLiteral(t) == t.type = "Number" /\ TokenIsInt(t)

\* the tokens from index j (0-based) on read { [-] int } { [-] int }
FastShapeAt(P, j) ==
    LET n == IF TokAt(P, j + 1).type = "Minus" THEN j + 2 ELSE j + 1
        d == IF TokAt(P, n + 3).type = "Minus" THEN n + 4 ELSE n + 3
    IN /\ TokAt(P, j).type = "LBrace" /\ IsIntLiteral(TokAt(P, n))
       /\ TokAt(P, n + 1).type = "RBrace" /\ TokAt(P, n + 2).type = "LBrace"
       /\ IsIntLiteral(TokAt(P, d)) /\ TokAt(P, d + 1).type = "RBrace"

\* C23: when the tokens after \frac are not { [-] int } { [-] int }, the step
\* of parseFraction that scans them ends with the cursor just after the \frac
\* token and the arena unchanged, and goes on to parse the first brace group.
C23_FailedScanRewinds ==
    [][(ParseFractionEntry /\ ~FastShapeAt(CurP, _pos + 1)) =>
            /\ _pos' = _pos + 1 /\ arena' = arena
            /\ pstate' = "running"
            /\ Last(stack').fn = "parseBraceGroup" /\ Last(stack').pc = "entry"
      ]_vars

\* \frac{1}{y}: the scan has failed at y and the general path is about to start
C23_Witness ==
    /\ _tokens = Toks(<<Cmd("frac"), LBrace, Num("1", 1), RBrace, LBrace, Ident("y"), RBrace>>)
    /\ At("parseBraceGroup", {"entry"}) /\ _pos = 1 /\ arena = <<>>
    /\ Len(stack) >= 2 /\ stack[Len(stack) - 1].fn = "parseFraction"

\* twice the number of positions still to read (the sentinel included), plus
\* one while a token is open: every position is read at most once inside a
\* token and at most once from Start
LexMeasure(idx, st) == 2 * (Len(input) + 1 - idx) + (IF st = "Start" THEN 0 ELSE 1)

\* C24: every iteration of Tokenize's loop that does not end it either moves
\* to the next position or stays on the position while committing a token and
\* returning to Start; the measure above decreases with every iteration and
\* is never negative, so each position is processed at most twice and the
\* loop ends.
C24_TokenizeTerminates ==
    [][(lexResult = "running" /\ lexResult' = "running") =>
            /\ \/ i' = i + 1
               \/ i' = i /\ s # "Start" /\ s' = "Start" /\ Len(tokens') = Len(tokens) + 1
            /\ LexMeasure(i', s') < LexMeasure(i, s)
            /\ LexMeasure(i', s') >= 0
      ]_vars

\* x( : the position of "(" has ended the identifier and is read again from Start
C24_Witness ==
    /\ lexResult = "running" /\ input = <<"x", "(">>
    /\ s = "Start" /\ i = 1 /\ Len(tokens) = 1 /\ tokens[1].type = "Identifier"

\* C25: in the first parse of a Parser over a token vector that ends with its
\* only End token, the cursor is an index of the vector in every state, so
\* every token the parse reads exists and nothing behind the End token is read.
C25_CursorStaysInside ==
    (FirstCall /\ EndTerminated(_tokens)) =>
        /\ _pos < Len(_tokens)
        /\ \A k \in 1.._pos : _tokens[k].type # "End"
        /\ peek(CurP) = _tokens[_pos + 1]

\* ( x End : expect(RParenthesis) has met the End token and the cursor is on it
C25_Witness ==
    /\ FirstCall /\ _tokens = Toks(<<LParen, Ident("x")>>)
    /\ pstate = "thrown" /\ _pos = 2 /\ Len(arena) = 1

RECURSIVE Lexemes(_)
\* the lexemes of the tokens, concatenated in order
Lexemes(toks) == IF toks = <<>> THEN "" ELSE Head(toks).lexeme \o Lexemes(Tail(toks))

\* the text without its whitespace characters
WithoutSpace(text) == Join(SelectSeq(text, LAMBDA c : ~isspace(c)))

\* C26: whenever Tokenize returns true, the lexemes of the tokens it produced,
\* concatenated in order, are the input with its whitespace characters removed.
C26_LexemesSpellInput ==
    lexResult \in {"true", "parsed"} => Lexemes(tokens) = WithoutSpace(input)

\* the decimal digits of INT64_MAX = 2^63 - 1
INT64_MAX_DIGITS ==
    <<"9", "2", "2", "3", "3", "7", "2", "0", "3", "6", "8", "5", "4", "7", "7", "5", "8", "0", "7">>

\* the digit sequence denotes a value that fits in i64
FitsInt64(ds) ==
    LET z == StripZeros(ds) IN
    \/ Len(z) < Len(INT64_MAX_DIGITS)
    \/ Len(z) = Len(INT64_MAX_DIGITS) /\ DigitsLeq(z, INT64_MAX_DIGITS)

\* C27: at the end of a digit-only literal whose value fits in a signed 64-bit
\* integer, Tokenize goes on (no exception, no failure) and commits one Number
\* token with the literal as lexeme and the literal's decimal value as integer
\* payload, also when the value is above 2^31 - 1.
C27_Int64LiteralExact ==
    [][(IntegerLiteralEnds /\ LexNumber /\ FitsInt64(buffer)) =>
            /\ lexResult' = "running"
            /\ tokens' # tokens /\ SubSeq(tokens', 1, Len(tokens)) = tokens
            /\ Last(tokens').type = "Number" /\ Last(tokens').lexeme = Join(buffer)
            /\ Last(tokens').number.alt = "i64"
            /\ FitsInt(buffer) => Last(tokens').number.value = DecValue(StripZeros(buffer))
      ]_vars

=============================================================================
